---- MODULE Spec2Model ----
(***************************************************************************)
(* Culinary Compass (src/src/App.jsx): the App component's six useState    *)
(* slots, the two async handlers handleGetGuide and handleGenerateImage,   *)
(* and the two kinds of network request they leave in flight.              *)
(*                                                                         *)
(* Granularity: JavaScript runs each handler to completion between its     *)
(* await points and React applies the setState calls of one such segment   *)
(* as one batch, so every action below is one synchronous segment and the  *)
(* variables hold the committed React state after it.                      *)
(***************************************************************************)
EXTENDS Integers, Sequences, FiniteSets, TLC

\* ---------------------------------------------------------------- bounds
MaxSubmits == 3
MaxLen == 1

\* ------------------------------------------------------------- JS values
Null == [type |-> "null"]
Undefined == [type |-> "undefined"]
Str(s) == [type |-> "string", value |-> s]
Num(n) == [type |-> "number", value |-> n]
Obj(fs, p) == [type |-> "object", fields |-> fs, imageGenPrompt |-> p]

\* JavaScript truthiness of a value
Truthy(v) ==
  CASE v.type = "null" -> FALSE
    [] v.type = "undefined" -> FALSE
    [] v.type = "string" -> v.value # ""
    [] v.type = "number" -> v.value # 0
    [] OTHER -> TRUE

\* the `required` list of the response schema
Required ==
  {"locationName", "mustTryDishes", "etiquetteTip", "restaurantSuggestion", "imageGenPrompt"}

\* the two user-facing messages
EmptyLocationMsg == "Please enter a country or city."
GuideErrorMsg == "Could not fetch the guide. The Culinary Compass is recalibrating!"

\* ------------------------------------------------------------- locations
Chars == {" ", "R"}

RECURSIVE SeqsUpTo(_)
SeqsUpTo(n) ==
  IF n = 0 THEN {<<>>}
  ELSE LET shorter == SeqsUpTo(n - 1)
       IN shorter \cup {Append(s, c) : s \in {t \in shorter : Len(t) = n - 1}, c \in Chars}

\* what the user can type into the text input
Locations == SeqsUpTo(MaxLen)

RECURSIVE TrimStart(_)
TrimStart(s) == IF s # <<>> /\ Head(s) = " " THEN TrimStart(Tail(s)) ELSE s

RECURSIVE TrimEnd(_)
TrimEnd(s) ==
  IF s # <<>> /\ s[Len(s)] = " " THEN TrimEnd(SubSeq(s, 1, Len(s) - 1)) ELSE s

\* String.prototype.trim
Trim(s) == TrimEnd(TrimStart(s))

\* a location that is empty or whitespace only
IsBlank(s) == Trim(s) = <<>>

\* `!location` never rejects (validation dropped)
LocationRejected_NoCheck(loc) == FALSE

\* `if (!location)`: the emptiness test of handleGetGuide (no trimming)
LocationRejected(loc) == Len(loc) = 0

\* `!apiKey` never fires (credential check dropped)
KeyMissing_NoCheck(key) == FALSE

\* `if (!apiKey) throw`
KeyMissing(key) == ~key

\* ------------------------------------------------- text endpoint replies
\* the inner text of candidates[0].content.parts[0].text, when present
GuideTexts ==
  { "",
    "not json",
    "null",
    "5",
    "0",
    "{full}",
    "{full, imageGenPrompt: ''}",
    "{full minus imageGenPrompt}",
    "{full minus mustTryDishes}" }

GuideResponses ==
  {[kind |-> "network"]}
    \cup {[kind |-> "http", ok |-> FALSE, status |-> 500]}
    \cup {[kind |-> "http", ok |-> TRUE, body |-> "not json"]}
    \cup {[kind |-> "http", ok |-> TRUE, body |-> "no candidates"]}
    \cup {[kind |-> "http", ok |-> TRUE, body |-> "candidates", text |-> t] : t \in GuideTexts}

ParseError == [type |-> "SyntaxError"]

\* JSON.parse on the texts above
JSONParse(t) ==
  CASE t = "null" -> Null
    [] t = "5" -> Num(5)
    [] t = "0" -> Num(0)
    [] t = "{full}" -> Obj(Required, "iconic dish photo")
    [] t = "{full, imageGenPrompt: ''}" -> Obj(Required, "")
    [] t = "{full minus imageGenPrompt}" -> Obj(Required \ {"imageGenPrompt"}, "")
    [] t = "{full minus mustTryDishes}" -> Obj(Required \ {"mustTryDishes"}, "iconic dish photo")
    [] OTHER -> ParseError

\* result.candidates?.[0]?.content?.parts?.[0]?.text
ResponseText(resp) ==
  IF resp.kind = "http" /\ resp.ok /\ resp.body = "candidates" THEN Str(resp.text) ELSE Undefined

\* parsedGuide.imageGenPrompt on a non-null value
PromptOf(v) ==
  IF v.type = "object" /\ "imageGenPrompt" \in v.fields THEN Str(v.imageGenPrompt) ELSE Undefined

\* the parsed value, when the try block of handleGetGuide gets as far as JSON.parse
ParsedGuide(resp) == JSONParse(ResponseText(resp).value)

\* does the try block reach setGuide(parsedGuide)?
ReachesSetGuide(resp) ==
  /\ resp.kind = "http" /\ resp.ok /\ resp.body # "not json"
  /\ Truthy(ResponseText(resp))
  /\ ParsedGuide(resp) # ParseError

\* does the try block of handleGetGuide throw after the fetch has resolved?
GuideThrows(resp) ==
  \/ ~ReachesSetGuide(resp)
  \/ ParsedGuide(resp) = Null

\* the image request is chained whatever the prompt is
ShouldGenerateImage_Always(parsed) == TRUE

\* `if (parsedGuide.imageGenPrompt)`
ShouldGenerateImage(parsed) == Truthy(PromptOf(parsed))

\* ------------------------------------------------ image endpoint replies
ImageResponses ==
  {[kind |-> "network"]}
    \cup {[kind |-> "http", ok |-> FALSE, status |-> 500]}
    \cup {[kind |-> "http", ok |-> TRUE, body |-> b] :
            b \in {"not json", "no predictions", "empty predictions", "no bytes", "empty bytes"}}
    \cup {[kind |-> "http", ok |-> TRUE, body |-> "bytes", bytes |-> "iVBOR"]}

\* result.predictions && result.predictions.length > 0 && result.predictions[0].bytesBase64Encoded
ImageSucceeds(resp) == resp.kind = "http" /\ resp.ok /\ resp.body = "bytes"

\* `data:image/png;base64,${bytes}`
DataUrl(bytes) == Str(<<"data:image/png;base64,", bytes>>)

\* ------------------------------------------------------------------ state
VARIABLES
  apiKey,          \* import.meta.env.VITE_GEMINI_API_KEY is set (module scope, never reassigned)
  location,        \* useState('')
  guide,           \* useState(null)
  loading,         \* useState(false)
  error,           \* useState(null)
  imageUrl,        \* useState(null)
  isImageLoading,  \* useState(false)
  guideReqs,       \* fetches of the text endpoint awaiting their response
  imgReqs,         \* fetches of the image endpoint awaiting their response
  submits,         \* number of handleGetGuide calls so far; a call's number is its query id
  cur,             \* id of the latest query that passed the emptiness test (0: none)
  guideIssued,     \* ids whose text fetch was issued
  imgIssued,       \* ids whose image fetch was issued
  guideOk,         \* ids whose try block in handleGetGuide completed without throwing
  guideOkPrompt,   \* ... and whose stored guide carries a non-empty imageGenPrompt
  guideFailed,     \* ids whose handleGetGuide ran its catch block
  imgFailed,       \* ids whose handleGenerateImage ran its catch block
  imageFrom,       \* id of the query whose response stored the current imageUrl (0: none)
  guideFetches,    \* per id, how many times the text endpoint was fetched
  imgFetches       \* per id, how many times the image endpoint was fetched

ui == <<guide, loading, error, imageUrl, isImageLoading>>
net == <<guideReqs, imgReqs>>
hist == <<submits, cur, guideIssued, imgIssued, guideOk, guideOkPrompt, guideFailed, imgFailed, imageFrom,
          guideFetches, imgFetches>>
vars == <<apiKey, location, ui, net, hist>>

Ids == 1..MaxSubmits

Init ==
  /\ apiKey \in BOOLEAN
  /\ location = <<>>
  /\ guide = Null
  /\ loading = FALSE
  /\ error = Null
  /\ imageUrl = Null
  /\ isImageLoading = FALSE
  /\ guideReqs = {}
  /\ imgReqs = {}
  /\ submits = 0
  /\ cur = 0
  /\ guideIssued = {}
  /\ imgIssued = {}
  /\ guideOk = {}
  /\ guideOkPrompt = {}
  /\ guideFailed = {}
  /\ imgFailed = {}
  /\ imageFrom = 0
  /\ guideFetches = [q \in Ids |-> 0]
  /\ imgFetches = [q \in Ids |-> 0]

\* the five display slots as one record, as the setters of a segment update them
Slots ==
  [guide |-> guide, loading |-> loading, error |-> error,
   imageUrl |-> imageUrl, isImageLoading |-> isImageLoading]

\* React commits the slots a segment ends with
Commit(s) ==
  /\ guide' = s.guide
  /\ loading' = s.loading
  /\ error' = s.error
  /\ imageUrl' = s.imageUrl
  /\ isImageLoading' = s.isImageLoading

\* the rejection also wipes the displayed guide and image
RejectEmpty_Clears(s) ==
  [s EXCEPT !.error = Str(EmptyLocationMsg), !.guide = Null, !.imageUrl = Null]

\* setError('Please enter a country or city.')
RejectEmpty(s) == [s EXCEPT !.error = Str(EmptyLocationMsg)]

\* the reset forgets setImageUrl(null)
ResetForNewSearch_KeepsImage(s) ==
  [s EXCEPT !.loading = TRUE, !.error = Null, !.guide = Null]

\* the reset forgets setLoading(true)
ResetForNewSearch_NoLoading(s) ==
  [s EXCEPT !.error = Null, !.guide = Null, !.imageUrl = Null]

\* "Reset state for a new search"
ResetForNewSearch(s) ==
  [s EXCEPT !.loading = TRUE, !.error = Null, !.guide = Null, !.imageUrl = Null]

\* the catch block shows the thrown error's own message
GuideCatch_OwnMessage(s) == [s EXCEPT !.error = Str("API request failed with status 500")]

\* catch block of handleGetGuide
GuideCatch(s) == [s EXCEPT !.error = Str(GuideErrorMsg)]

\* finally block of handleGetGuide
GuideFinally(s) == [s EXCEPT !.loading = FALSE]

\* setGuide(parsedGuide)
StoreGuide(s, parsed) == [s EXCEPT !.guide = parsed]

\* the head of handleGenerateImage forgets setIsImageLoading(true)
GenerateImageHead_NoFlag(s) == [s EXCEPT !.imageUrl = Null]

\* handleGenerateImage up to its fetch
GenerateImageHead(s) == [s EXCEPT !.isImageLoading = TRUE, !.imageUrl = Null]

\* setImageUrl(newImageUrl)
StoreImage(s, bytes) == [s EXCEPT !.imageUrl = DataUrl(bytes)]

\* the catch block reports the image failure to the user
ImageCatch_SetsError(s) == [s EXCEPT !.error = Str("Image generation failed.")]

\* catch block of handleGenerateImage: console.error only
ImageCatch(s) == s

\* finally block of handleGenerateImage
ImageFinally(s) == [s EXCEPT !.isImageLoading = FALSE]

\* the catch block fetches again: the failed request is back in flight
GuideReqsAfter_Retry(reqs, r, threw) == IF threw THEN reqs ELSE reqs \ {r}

\* the one `await fetch` of handleGetGuide has settled; the catch block issues nothing
GuideReqsAfter(reqs, r, threw) == reqs \ {r}

\* onChange of the text input
SetLocation ==
  /\ \E l \in Locations : l # location /\ location' = l
  /\ UNCHANGED <<apiKey, ui, net, hist>>

\* the submit button is never disabled
SubmitEnabled_Always == TRUE

\* the submit control is usable: <button type="submit" disabled={loading}>
SubmitEnabled == ~loading

\* handleGetGuide from its entry to its first await (or to its return when it
\* never awaits): the emptiness test, the reset, the credential test, the fetch
Submit ==
  /\ SubmitEnabled
  /\ submits < MaxSubmits
  /\ submits' = submits + 1
  /\ IF LocationRejected(location)
       THEN /\ Commit(RejectEmpty(Slots))
            /\ UNCHANGED <<guideReqs, cur, guideIssued, guideFailed, imageFrom, guideFetches>>
       ELSE /\ cur' = submits + 1
            /\ imageFrom' = 0
            /\ IF KeyMissing(apiKey)
                 THEN /\ Commit(GuideFinally(GuideCatch(ResetForNewSearch(Slots))))
                      /\ guideFailed' = guideFailed \cup {submits + 1}
                      /\ UNCHANGED <<guideReqs, guideIssued, guideFetches>>
                 ELSE /\ Commit(ResetForNewSearch(Slots))
                      /\ guideReqs' = guideReqs \cup {[q |-> submits + 1, location |-> location]}
                      /\ guideIssued' = guideIssued \cup {submits + 1}
                      /\ guideFetches' = [guideFetches EXCEPT ![submits + 1] = @ + 1]
                      /\ UNCHANGED guideFailed
  /\ UNCHANGED <<apiKey, location, imgReqs, imgIssued, guideOk, guideOkPrompt, imgFailed, imgFetches>>

\* handleGetGuide from the resolution of its fetch to its end, with the
\* synchronous head of handleGenerateImage when the call is chained
GuideResolve ==
  \E r \in guideReqs, resp \in GuideResponses :
    LET threw == GuideThrows(resp)
        parsed == ParsedGuide(resp)
        chain == ~threw /\ ShouldGenerateImage(parsed)
        s1 == IF ReachesSetGuide(resp) THEN StoreGuide(Slots, parsed) ELSE Slots
        s2 == IF chain THEN GenerateImageHead(s1) ELSE s1
        s3 == IF threw THEN GuideCatch(s2) ELSE s2
    IN /\ guideReqs' = GuideReqsAfter(guideReqs, r, threw)
       /\ guideFetches' = IF r \in guideReqs' THEN [guideFetches EXCEPT ![r.q] = @ + 1]
                         ELSE guideFetches
       /\ imgFetches' = IF chain THEN [imgFetches EXCEPT ![r.q] = @ + 1] ELSE imgFetches
       /\ Commit(GuideFinally(s3))
       /\ imgReqs' = IF chain THEN imgReqs \cup {[q |-> r.q, prompt |-> PromptOf(parsed)]}
                    ELSE imgReqs
       /\ imageFrom' = IF chain THEN 0 ELSE imageFrom
       /\ imgIssued' = imgIssued \cup {x.q : x \in imgReqs' \ imgReqs}
       /\ guideOk' = IF threw THEN guideOk ELSE guideOk \cup {r.q}
       /\ guideOkPrompt' = IF ~threw /\ parsed.type = "object" /\ "imageGenPrompt" \in parsed.fields
                              /\ parsed.imageGenPrompt # ""
                           THEN guideOkPrompt \cup {r.q} ELSE guideOkPrompt
       /\ guideFailed' = IF threw THEN guideFailed \cup {r.q} ELSE guideFailed
       /\ UNCHANGED <<apiKey, location, submits, cur, guideIssued, imgFailed>>

\* handleGenerateImage from the resolution of its fetch to its end
ImageResolve ==
  \E r \in imgReqs, resp \in ImageResponses :
    LET s1 == IF ImageSucceeds(resp) THEN StoreImage(Slots, resp.bytes) ELSE ImageCatch(Slots)
    IN /\ imgReqs' = imgReqs \ {r}
       /\ Commit(ImageFinally(s1))
       /\ imageFrom' = IF ImageSucceeds(resp) THEN r.q ELSE imageFrom
       /\ imgFailed' = IF ImageSucceeds(resp) THEN imgFailed ELSE imgFailed \cup {r.q}
       /\ UNCHANGED <<apiKey, location, guideReqs,
                      submits, cur, guideIssued, imgIssued, guideOk, guideOkPrompt, guideFailed,
                      guideFetches, imgFetches>>

Next == SetLocation \/ Submit \/ GuideResolve \/ ImageResolve

Spec == Init /\ [][Next]_vars

\* every issued fetch eventually settles (the browser resolves or rejects it)
FairSpec == Spec /\ WF_vars(GuideResolve) /\ WF_vars(ImageResolve)

\* ---------------------------------------------------------------- claims
\* ids whose guide stage has reached its outcome (guide stored, or error set)
Terminal == guideOk \cup guideFailed

\* C1: the response of a request that belongs to a superseded query changes
\* none of guide, image, guideLoading, imageLoading, error.
C1_StaleResponseDiscarded ==
  [][((\E r \in imgReqs : r \notin imgReqs' /\ r.q # cur)
        \/ (\E r \in guideReqs : r \notin guideReqs' /\ r.q # cur))
       => UNCHANGED ui]_vars

C3_ImageFailureIsolated ==
  [][imgFailed' # imgFailed
       => /\ guide' = guide
          /\ error' = error
          /\ imageUrl' = imageUrl
          /\ loading' = loading
          /\ isImageLoading' = FALSE
          /\ imageFrom' \notin imgFailed']_vars

C3_Witness ==
  /\ cur \in imgFailed
  /\ Truthy(guide)
  /\ ~Truthy(error)
  /\ ~Truthy(imageUrl)
  /\ ~isImageLoading

\* C4 as stated: a submit of an empty or whitespace-only location issues no
\* request and ends with error set and guideLoading false.
C4_BlankSubmitIssuesNothing ==
  [][submits' # submits /\ IsBlank(location)
       => /\ UNCHANGED net
          /\ Truthy(error')
          /\ ~loading']_vars

\* C4 as amended: a submit of the empty location (length zero) issues no
\* request and ends with error set and guideLoading false, never having
\* been true.
C4_EmptySubmitIssuesNothing ==
  [][submits' # submits /\ location = <<>>
       => /\ UNCHANGED net
          /\ Truthy(error')
          /\ ~loading /\ ~loading']_vars

C4_Witness ==
  /\ submits > 0
  /\ location = <<>>
  /\ error = Str(EmptyLocationMsg)
  /\ guideReqs = {}

\* C5: after a failure of the guide stage error is present and guide and
\* image are absent.
C5_GuideFailureClears ==
  [][guideFailed' # guideFailed
       => /\ Truthy(error')
          /\ ~Truthy(guide')
          /\ ~Truthy(imageUrl')]_vars

\* C6: without an API key no request is ever issued, guideLoading is never
\* true, no guide is stored, and once a non-empty location has been
\* submitted error is present.
C6_NoKeyNoRequest ==
  ~apiKey
    => /\ guideIssued = {} /\ imgIssued = {}
       /\ guideReqs = {} /\ imgReqs = {}
       /\ ~loading
       /\ ~Truthy(guide)
       /\ (cur > 0 => Truthy(error))

C6_Witness == ~apiKey /\ cur > 0 /\ error = Str(GuideErrorMsg) /\ cur \in guideFailed

\* C7: a stored guide is an object carrying every required field.
C7_InvalidPayloadNeverStored ==
  Truthy(guide) => guide.type = "object" /\ Required \subseteq guide.fields

\* C8: the step that issues a guide request leaves guide, image and error
\* cleared and guideLoading true.
C8_SubmitResets ==
  [][guideIssued' # guideIssued
       => /\ guide' = Null
          /\ imageUrl' = Null
          /\ error' = Null
          /\ loading' = TRUE]_vars

C8_Witness ==
  /\ loading
  /\ cur \in {r.q : r \in guideReqs}
  /\ imgReqs # {}
  /\ guideOk # {}
  /\ guide = Null /\ imageUrl = Null /\ error = Null

\* C9 as stated: the outcome of a query's guide stage is reached from a
\* state in which guideLoading is true.
C9_LoadingBeforeOutcome ==
  [][Terminal' # Terminal => loading]_vars

\* C9 as amended: with the API key present, the outcome of a query's guide
\* stage is reached from a state in which guideLoading is true, and the
\* query's guide request was issued before it.
C9_LoadingBeforeOutcomeWithKey ==
  [][apiKey /\ Terminal' # Terminal
       => loading /\ (Terminal' \ Terminal) \subseteq guideIssued]_vars

C9_Witness == apiKey /\ guideOk # {} /\ guideFailed # {} /\ cur \in Terminal

C11_ImageImpliesGuide ==
  Truthy(imageUrl) => Truthy(guide) /\ imageFrom = cur

\* no fetch is outstanding and a query has been submitted
Quiescent == guideReqs = {} /\ imgReqs = {} /\ cur > 0

\* C12: once every issued request has resolved, guideLoading and
\* imageLoading are false and either error or guide is present.
C12_ResolvesToDefinedState ==
  Quiescent => ~loading /\ ~isImageLoading /\ (Truthy(error) \/ Truthy(guide))

\* the termination half of C12 on its own: under FairSpec every run settles
\* with no fetch outstanding and both loading flags false
C12_EventuallySettles ==
  <>[](guideReqs = {} /\ imgReqs = {} /\ ~loading /\ ~isImageLoading)

C14_EmptySubmitReplacesGuide ==
  [][submits' # submits /\ location = <<>>
       => Truthy(error') /\ ~Truthy(guide') /\ ~Truthy(imageUrl')]_vars

\* C14 as amended: an empty-location submit sets error to the empty-location
\* message and leaves guide, image and both loading flags as they were.
C14_EmptySubmitKeepsGuide ==
  [][submits' # submits /\ location = <<>>
       => /\ error' = Str(EmptyLocationMsg)
          /\ UNCHANGED <<guide, imageUrl, loading, isImageLoading>>]_vars

C14_Witness ==
  /\ error = Str(EmptyLocationMsg)
  /\ Truthy(guide)
  /\ Truthy(imageUrl)

\* C15 as stated: whenever error is present it is the one generic message.
C15_OneGenericMessage == Truthy(error) => error = Str(GuideErrorMsg)

\* C15 as amended: every failure of the guide stage after the emptiness test
\* sets error to the one generic message, whatever its subtype; the
\* empty-location rejection sets a different message; error never holds
\* anything else.
C15_OneMessagePerStage ==
  [][/\ guideFailed' # guideFailed => error' = Str(GuideErrorMsg)
     /\ (submits' # submits /\ location = <<>>) => error' = Str(EmptyLocationMsg)
     /\ error' \in {Null, Str(GuideErrorMsg), Str(EmptyLocationMsg)}
     /\ EmptyLocationMsg # GuideErrorMsg]_vars

C15_Witness ==
  /\ error = Str(GuideErrorMsg)
  /\ \E q \in guideFailed : q \in guideIssued
  /\ submits > Cardinality(guideIssued)

\* C16: imageLoading is true exactly while an image request of the current
\* query is outstanding.
C16_ImageLoadingTracksCurrent ==
  isImageLoading <=> \E r \in imgReqs : r.q = cur

\* C17: at most one guide request is in flight, and guideLoading is true
\* exactly while it is.
C17_OneGuideRequest ==
  /\ Cardinality(guideReqs) <= 1
  /\ loading <=> guideReqs # {}
  /\ \A r \in guideReqs : r.q = cur

C17_Witness ==
  /\ loading
  /\ Cardinality(guideReqs) = 1
  /\ \E r \in imgReqs : r.q # cur

====
